---------------------------- MODULE Spec2Model ----------------------------
(***************************************************************************)
(* Model of the metrics adapter (patterns/adapter/adapter/adapter.py) and  *)
(* of the legacy producer (patterns/adapter/legacy/main.py).               *)
(*                                                                         *)
(* Text read from the status file is a sequence of one-character strings,  *)
(* so that the substring test, split(":"), strip() and int() are computed  *)
(* character by character.  Text written to the response is a sequence of  *)
(* tokens: a string literal of the source is one token, "\n" is always a   *)
(* token of its own, and rendered numbers are one token per digit.         *)
(***************************************************************************)
EXTENDS Integers, Sequences, FiniteSets, TLC

NL == "\n"

(* ------------------------- bounds of the model ------------------------- *)

\* An arbitrary snapshot holds at most MaxLines lines.
MaxLines == 2

\* Well-formed lines carry the values 0..MaxN (and the scenario values).
MaxN == 2

\* Answers to GET /metrics against an unchanged file are counted up to MaxRepeats.
MaxRepeats == 2

(* -------------------------------- state -------------------------------- *)

VARIABLES
    logFile,      \* LOG_FILE: [exists, readable, text]
    request,      \* the request last handled: [method, path]
    response,     \* its response
    lastMetrics,  \* the last answer to GET /metrics since the file changed
    pending,      \* producer: text handed to f.write and not yet in the file
    memory_mb,    \* producer: the value drawn for this snapshot
    cpu_percent   \* producer: the value drawn for this snapshot

(* ----------------------- Python string operations ---------------------- *)

Digits == <<"0", "1", "2", "3", "4", "5", "6", "7", "8", "9">>

IsDigit(c) == \E i \in 1..10 : Digits[i] = c

DigitVal(c) == (CHOOSE i \in 1..10 : Digits[i] = c) - 1

\* str.isspace for the characters of the model
IsSpace(c) == c \in {" ", "\n", "\t", "\r"}

\* s[i:j] with Python's 0-based half-open indices turned into 1-based inclusive
Slice(s, a, b) == [k \in 1..(IF b >= a THEN b - a + 1 ELSE 0) |-> s[a + k - 1]]

\* `sub in s`
Contains(sub, s) ==
    \E i \in 1..(Len(s) - Len(sub) + 1) : Slice(s, i, i + Len(sub) - 1) = sub

\* s.split(sep) for a one-character separator: every occurrence splits
RECURSIVE SplitFrom(_, _, _, _)
SplitFrom(s, sep, i, cur) ==
    IF i > Len(s) THEN <<cur>>
    ELSE IF s[i] = sep THEN <<cur>> \o SplitFrom(s, sep, i + 1, <<>>)
    ELSE SplitFrom(s, sep, i + 1, Append(cur, s[i]))

Split(s, sep) == SplitFrom(s, sep, 1, <<>>)

\* s.strip()
RECURSIVE LStrip(_)
LStrip(s) == IF s # <<>> /\ IsSpace(Head(s)) THEN LStrip(Tail(s)) ELSE s

RECURSIVE RStrip(_)
RStrip(s) ==
    IF s # <<>> /\ IsSpace(s[Len(s)]) THEN RStrip(SubSeq(s, 1, Len(s) - 1)) ELSE s

Strip(s) == RStrip(LStrip(s))

\* f.readlines(): the text cut after every "\n"; a last line without "\n" is kept
RECURSIVE ReadLinesFrom(_, _, _)
ReadLinesFrom(s, i, cur) ==
    IF i > Len(s) THEN (IF cur = <<>> THEN <<>> ELSE <<cur>>)
    ELSE IF s[i] = NL THEN <<Append(cur, NL)>> \o ReadLinesFrom(s, i + 1, <<>>)
    ELSE ReadLinesFrom(s, i + 1, Append(cur, s[i]))

ReadLines(s) == ReadLinesFrom(s, 1, <<>>)

\* int(s) accepts: optional whitespace, an optional sign, digits (single
\* underscores allowed between digits), optional whitespace.
DigitsOk(d) ==
    /\ d # <<>>
    /\ \A i \in 1..Len(d) :
          \/ IsDigit(d[i])
          \/ d[i] = "_" /\ 1 < i /\ i < Len(d) /\ IsDigit(d[i - 1]) /\ IsDigit(d[i + 1])

Unsigned(s) == IF s # <<>> /\ Head(s) \in {"+", "-"} THEN Tail(s) ELSE s

IntValid(s) == DigitsOk(Unsigned(Strip(s)))

RECURSIVE DigitsValue(_, _)
DigitsValue(d, acc) ==
    IF d = <<>> THEN acc
    ELSE IF Head(d) = "_" THEN DigitsValue(Tail(d), acc)
    ELSE DigitsValue(Tail(d), 10 * acc + DigitVal(Head(d)))

IntValue(s) ==
    LET t == Strip(s)
    IN  IF t # <<>> /\ Head(t) = "-" THEN 0 - DigitsValue(Unsigned(t), 0)
        ELSE DigitsValue(Unsigned(t), 0)

\* str(n) of an int, as used by the f-strings: one token per character
RECURSIVE NatStr(_)
NatStr(n) == IF n < 10 THEN <<Digits[n + 1]>> ELSE Append(NatStr(n \div 10), Digits[(n % 10) + 1])

Str(n) == IF n < 0 THEN <<"-">> \o NatStr(0 - n) ELSE NatStr(n)

\* repr(s) of a str between single quotes: "\n" is escaped (the model's
\* alphabet holds no quote and no other control character)
RECURSIVE Escape(_)
Escape(s) ==
    IF s = <<>> THEN <<>>
    ELSE (IF Head(s) = NL THEN <<"\\", "n">> ELSE <<Head(s)>>) \o Escape(Tail(s))

Repr(s) == <<"'">> \o Escape(s) \o <<"'">>

\* sep.join(list) for a list of token sequences
RECURSIVE Join(_, _)
Join(sep, list) ==
    IF list = <<>> THEN <<>>
    ELSE IF Len(list) = 1 THEN list[1]
    ELSE list[1] \o <<sep>> \o Join(sep, Tail(list))


(* ------------------------ literals of adapter.py ----------------------- *)

MemMarker == <<"M", "e", "m", "U", "s", "a", "g", "e", "M", "B">>
CpuMarker == <<"C", "P", "U", "_", "L", "o", "a", "d">>

NotCreatedText == "# Status file not yet created by legacy app"
ErrorPrefix == "# Error parsing log file: "

MemHelp == "# HELP legacy_memory_usage_bytes Memory usage converted to bytes"
MemType == "# TYPE legacy_memory_usage_bytes gauge"
MemSample == "legacy_memory_usage_bytes "
CpuHelp == "# HELP legacy_cpu_load_percent CPU load percentage"
CpuType == "# TYPE legacy_cpu_load_percent gauge"
CpuSample == "legacy_cpu_load_percent "

(* ------------------------- exceptions (Python) ------------------------- *)

NoExc == "none"

Ok(v) == [exc |-> NoExc, msg |-> <<>>, value |-> v]

Raise(type, msg) == [exc |-> type, msg |-> msg, value |-> 0]

IndexErrorMsg == <<"list index out of range">>
ValueErrorMsg(arg) == <<"invalid literal for int() with base 10: ">> \o Repr(arg)
PermissionErrorMsg == <<"[Errno 13] Permission denied: '/var/log/app/status.txt'">>
FileNotFoundMsg == <<"[Errno 2] No such file or directory: '/var/log/app/status.txt'">>

(* ------------------------------ transform ------------------------------ *)

\* parts = line.split(":"); int(parts[1].strip())
FieldValue(line) ==
    LET parts == Split(line, ":")
    IN  IF Len(parts) < 2 THEN Raise("IndexError", IndexErrorMsg)
        ELSE LET arg == Strip(parts[2])
             IN  IF IntValid(arg) THEN Ok(IntValue(arg))
                 ELSE Raise("ValueError", ValueErrorMsg(arg))

\* faulty variant: megabytes taken as 10^6 bytes
BytesValueDecimal(mb_value) == mb_value * 1000 * 1000

\* bytes_value = mb_value * 1024 * 1024
BytesValue(mb_value) == mb_value * 1024 * 1024

\* the three output.append calls of the memory branch
MemBlock(mb_value) ==
    << <<MemHelp>>, <<MemType>>, <<MemSample>> \o Str(BytesValue(mb_value)) >>

\* the three output.append calls of the CPU branch
CpuBlock(cpu_value) ==
    << <<CpuHelp>>, <<CpuType>>, <<CpuSample>> \o Str(cpu_value) >>

\* faulty variant: output.insert(0, ...) in place of output.append
PrependBlock(output, block) == block \o output

\* output.append: the block goes to the end of the list
AppendBlock(output, block) == output \o block

\* faulty variant: the list is not reset, it is the one the request before left
LeakedOutput == response.output

\* output = []
EmptyOutput == <<>>

\* for line in lines: ... ; an exception leaves the loop at once
RECURSIVE Transform(_, _)
Transform(lines, output) ==
    IF lines = <<>> THEN [exc |-> NoExc, msg |-> <<>>, output |-> output]
    ELSE LET line == Head(lines)
         IN  IF Contains(MemMarker, line)
             THEN LET f == FieldValue(line)
                  IN  IF f.exc # NoExc
                      THEN [exc |-> f.exc, msg |-> f.msg, output |-> output]
                      ELSE Transform(Tail(lines), AppendBlock(output, MemBlock(f.value)))
             ELSE IF Contains(CpuMarker, line)
             THEN LET f == FieldValue(line)
                  IN  IF f.exc # NoExc
                      THEN [exc |-> f.exc, msg |-> f.msg, output |-> output]
                      ELSE Transform(Tail(lines), AppendBlock(output, CpuBlock(f.value)))
             ELSE Transform(Tail(lines), output)

\* faulty variant: the final + "\n" is missing
ResponseTextNoNewline(output) == Join(NL, output)

\* response_text = "\n".join(output) + "\n"
ResponseText(output) == Join(NL, output) \o <<NL>>

\* f"# Error parsing log file: {e}\n"
ErrorText(msg) == <<ErrorPrefix>> \o msg \o <<NL>>

\* faulty variant: except ValueError in place of except Exception
CaughtValueErrorOnly(exc) == exc = "ValueError"

\* except Exception: every exception the pipeline raises is an Exception
Caught(exc) ==
    exc \in {"IndexError", "ValueError", "PermissionError", "FileNotFoundError"}

(* ------------------------- http.server plumbing ------------------------ *)

\* A response under construction: `buffer` is the handler's header buffer,
\* `head` and `body` are what reached the connection (wfile), `exc` the
\* exception raised in the try block, `crashed` whether one left do_GET,
\* `read` whether the status file was looked at, `output` the handler's list.
NewResponse ==
    [buffer |-> <<>>, head |-> <<>>, body |-> <<>>, exc |-> NoExc,
     crashed |-> FALSE, read |-> FALSE, output |-> <<>>]

StatusLine(code) ==
    CASE code = 200 -> "HTTP/1.0 200 OK"
      [] code = 404 -> "HTTP/1.0 404 Not Found"
      [] code = 501 -> "HTTP/1.0 501 Unsupported method"

\* send_response(code): the status line goes to the header buffer (the
\* Server and Date headers it adds are left out)
SendResponse(r, code) == [r EXCEPT !.buffer = @ \o <<StatusLine(code)>>]

\* send_header(k, v): one more buffered line
SendHeader(r, line) == [r EXCEPT !.buffer = @ \o <<line>>]

\* end_headers(): the buffer is written to the connection
EndHeaders(r) == [r EXCEPT !.head = @ \o r.buffer, !.buffer = <<>>]

\* wfile.write(data)
Write(r, data) == [r EXCEPT !.body = @ \o data]

\* The status the client reads: that of the status line that reached the
\* connection; 0 when none did.
StatusOf(r) ==
    IF r.head = <<>> THEN 0
    ELSE CHOOSE code \in {200, 404, 501} : StatusLine(code) = r.head[1]


(* ------------------------------- do_GET -------------------------------- *)

\* except Exception as e: the diagnostic is written; an exception that is not
\* caught would leave do_GET
Except(r, exc, msg) ==
    IF Caught(exc) THEN Write([r EXCEPT !.exc = exc], ErrorText(msg))
    ELSE [r EXCEPT !.exc = exc, !.crashed = TRUE]

\* faulty variant: no os.path.exists test, open() raises on the absent file
TryBlockNoExistsTest(r, file) ==
    LET r1 == [r EXCEPT !.read = TRUE]
    IN  IF ~file.exists THEN Except(r1, "FileNotFoundError", FileNotFoundMsg)
        ELSE IF ~file.readable THEN Except(r1, "PermissionError", PermissionErrorMsg)
        ELSE LET t  == Transform(ReadLines(file.text), EmptyOutput)
                 r2 == [r1 EXCEPT !.output = t.output]
             IN  IF t.exc = NoExc THEN Write(r2, ResponseText(t.output))
                 ELSE Except(r2, t.exc, t.msg)

\* the try block: exists check, open and readlines, transform, respond
TryBlock(r, file) ==
    LET r1 == [r EXCEPT !.read = TRUE]
    IN  IF ~file.exists THEN Write(r1, <<NotCreatedText, NL>>)
        ELSE IF ~file.readable THEN Except(r1, "PermissionError", PermissionErrorMsg)
        ELSE LET t  == Transform(ReadLines(file.text), EmptyOutput)
                 r2 == [r1 EXCEPT !.output = t.output]
             IN  IF t.exc = NoExc THEN Write(r2, ResponseText(t.output))
                 ELSE Except(r2, t.exc, t.msg)

DoGET(path, file) ==
    IF path = "/metrics"
    THEN TryBlock(EndHeaders(SendHeader(SendResponse(NewResponse, 200),
                                        "Content-type: text/plain")), file)
    ELSE SendResponse(NewResponse, 404)

\* BaseHTTPRequestHandler dispatches on the method name: AdapterHandler
\* defines do_GET only, every other method is answered by send_error(501),
\* which sends complete headers and an error page.
ErrorPage == "<html>Error response: 501 Unsupported method</html>"

Dispatch(method, path, file) ==
    IF method = "GET" THEN DoGET(path, file)
    ELSE Write(EndHeaders(SendHeader(SendResponse(NewResponse, 501),
                                     "Content-Type: text/html;charset=utf-8")),
               <<ErrorPage, NL>>)

(* ------------------------- the legacy producer ------------------------- *)

\* random.randint(256, 1024) and random.randint(10, 90)
MemLow == 256
MemHigh == 1024
CpuLow == 10
CpuHigh == 90

\* the values of the model's runs, within the ranges of the draws
MemoryChoices == {m \in {MemLow, 400, MemHigh} : MemLow <= m /\ m <= MemHigh}
CpuChoices == {c \in {CpuLow, 35, CpuHigh} : CpuLow <= c /\ c <= CpuHigh}

StatusLineText == <<"S", "y", "s", "t", "e", "m", "S", "t", "a", "t", "u", "s", ":", " ", "O", "K", "\n">>
LastUpdateKey == <<"L", "a", "s", "t", "U", "p", "d", "a", "t", "e", ":", " ">>
\* time.time() at the write, as the f-string prints it
TimeText == <<"1", "2", "3", ".", "0">>

\* the four f.write calls
SnapshotText(mem, cpu) ==
    StatusLineText
    \o MemMarker \o <<":", " ">> \o Str(mem) \o <<NL>>
    \o CpuMarker \o <<":", " ">> \o Str(cpu) \o <<NL>>
    \o LastUpdateKey \o TimeText \o <<NL>>

(* ----------------------------- initial state --------------------------- *)

vars == <<logFile, request, response, lastMetrics, pending, memory_mb, cpu_percent>>

producerVars == <<pending, memory_mb, cpu_percent>>

NoFile == [exists |-> FALSE, readable |-> FALSE, text |-> <<>>]

NoRequest == [method |-> "", path |-> ""]

\* lastMetrics before any GET /metrics: n counts the answers since the file
\* changed, up to MaxRepeats
NoMetrics == [head |-> <<>>, body |-> <<>>, n |-> 0]

Methods == {"GET", "POST"}

Paths == {"/metrics", "/healthz"}

Init ==
    /\ logFile = NoFile
    /\ request = NoRequest
    /\ response = NewResponse
    /\ lastMetrics = NoMetrics
    /\ pending = <<>>
    /\ memory_mb = 0
    /\ cpu_percent = 0

\* The status file changed: the exchange before it is over.
Forget ==
    /\ request' = NoRequest
    /\ response' = NewResponse
    /\ lastMetrics' = NoMetrics

(* ------------------------------- adapter ------------------------------- *)

\* The handler leaves the status file as it is: it only tests for it and
\* opens it with mode "r".
FileAfter(method, path, file) == file

HandleRequest(method, path) ==
    /\ request' = [method |-> method, path |-> path]
    /\ response' = Dispatch(method, path, logFile)
    /\ logFile' = FileAfter(method, path, logFile)
    /\ lastMetrics' = IF method = "GET" /\ path = "/metrics"
                      THEN [head |-> response'.head, body |-> response'.body,
                            n |-> IF lastMetrics.n < MaxRepeats THEN lastMetrics.n + 1
                                  ELSE MaxRepeats]
                      ELSE lastMetrics
    /\ UNCHANGED producerVars

Serve == \E method \in Methods, path \in Paths : HandleRequest(method, path)

(* -------------------- arbitrary writers of the file -------------------- *)

Values == (0..MaxN) \cup {35, 400}

MemLine(n) == MemMarker \o <<":", " ">> \o Str(n) \o <<NL>>

CpuLine(n) == CpuMarker \o <<":", " ">> \o Str(n) \o <<NL>>

WellFormedLines == {MemLine(n) : n \in Values} \cup {CpuLine(n) : n \in Values}

NegativeLine == <<"C", "P", "U", "_", "L", "o", "a", "d", ":", " ", "-", "5", "\n">>
NotANumberLine == <<"M", "e", "m", "U", "s", "a", "g", "e", "M", "B", ":", " ", "a", "b", "c", "\n">>
NoColonLine == <<"C", "P", "U", "_", "L", "o", "a", "d", "\n">>
EmptyValueLine == <<"C", "P", "U", "_", "L", "o", "a", "d", ":", "\n">>
ExtraColonLine == <<"M", "e", "m", "U", "s", "a", "g", "e", "M", "B", ":", " ", "4", "0", "0", ":", " ", "e", "x", "t", "r", "a", "\n">>

OtherLines == {StatusLineText, NegativeLine, NotANumberLine, NoColonLine,
               EmptyValueLine, ExtraColonLine}

LineSet == WellFormedLines \cup OtherLines

Unlink ==
    /\ logFile.exists
    /\ logFile' = NoFile
    /\ Forget
    /\ UNCHANGED producerVars

Chmod ==
    /\ logFile.exists
    /\ logFile' = [logFile EXCEPT !.readable = ~@]
    /\ Forget
    /\ UNCHANGED producerVars

\* open(LOG_FILE, "w") by any writer: created if absent, emptied otherwise
Truncate ==
    /\ logFile' = [exists |-> TRUE,
                   readable |-> IF logFile.exists THEN logFile.readable ELSE TRUE,
                   text |-> <<>>]
    /\ logFile' # logFile
    /\ Forget
    /\ UNCHANGED producerVars

AppendLine ==
    /\ logFile.exists
    /\ Len(ReadLines(logFile.text)) < MaxLines
    /\ \E line \in LineSet : logFile' = [logFile EXCEPT !.text = @ \o line]
    /\ Forget
    /\ UNCHANGED producerVars

Next == Serve \/ Unlink \/ Chmod \/ Truncate \/ AppendLine

Spec == Init /\ [][Next]_vars

(* -------------------- the adapter beside the producer ------------------- *)

\* with open(LOG_FILE, "w") as f: the draw and the truncating open
ProducerOpen ==
    /\ pending = <<>>
    /\ \E mem \in MemoryChoices, cpu \in CpuChoices :
          /\ memory_mb' = mem
          /\ cpu_percent' = cpu
          /\ pending' = SnapshotText(mem, cpu)
    /\ logFile' = [exists |-> TRUE, readable |-> TRUE, text |-> <<>>]
    /\ Forget

\* The written text reaches the file; adapter and producer share no lock, so
\* a reader may find any prefix of it (k characters more at each step; all of
\* it at once when k = Len(pending)).
ProducerWrite ==
    /\ pending # <<>>
    /\ \E k \in 1..Len(pending) :
          /\ logFile' = [logFile EXCEPT !.text = @ \o SubSeq(pending, 1, k)]
          /\ pending' = SubSeq(pending, k + 1, Len(pending))
    /\ Forget
    /\ UNCHANGED <<memory_mb, cpu_percent>>

NextLegacy == Serve \/ ProducerOpen \/ ProducerWrite

SpecLegacy == Init /\ [][NextLegacy]_vars


(* ------------------------ vocabulary of the claims --------------------- *)

\* The request last handled was GET /metrics; a change of the file forgets
\* the exchange, so logFile is the file that request found.
IsMetrics == request = [method |-> "GET", path |-> "/metrics"]

\* The file was there and could be read.
WasRead == logFile.exists /\ logFile.readable

SnapshotLines == ReadLines(logFile.text)

\* The complete lines of a body: the pieces before each "\n".
BodyLines(body) ==
    LET parts == Split(body, NL) IN SubSeq(parts, 1, Len(parts) - 1)

\* What follows the last "\n" of a body (empty when the body ends with one).
BodyRest(body) == LET parts == Split(body, NL) IN parts[Len(parts)]

IsSampleLine(l) == l # <<>> /\ l[1] \in {MemSample, CpuSample}

NoSampleLine(body) ==
    \A i \in 1..Len(body) : body[i] \notin {MemSample, CpuSample}

\* One comment line "# Error parsing log file: ...", and nothing else.
IsDiagnostic(body) ==
    /\ Len(body) >= 2
    /\ body[1] = "# Error parsing log file: "
    /\ body[Len(body)] = NL
    /\ \A i \in 1..(Len(body) - 1) : body[i] # NL
    /\ NoSampleLine(body)

Marked(line) == Contains(MemMarker, line) \/ Contains(CpuMarker, line)

HasColon(line) == \E i \in 1..Len(line) : line[i] = ":"

\* The right-hand side of a line: all that follows its first ":".
AfterFirstColon(line) ==
    LET i == CHOOSE k \in 1..Len(line) :
                 line[k] = ":" /\ \A j \in 1..(k - 1) : line[j] # ":"
    IN  SubSeq(line, i + 1, Len(line))

\* A marked line whose right-hand side is not one integer.
Malformed(line) ==
    Marked(line) /\ (~HasColon(line) \/ ~IntValid(Strip(AfterFirstColon(line))))

\* `MemUsageMB: N` / `CPU_Load: N`, N an integer written in decimal
IsMemLine(line, n) == line = MemMarker \o <<":", " ">> \o Str(n) \o <<NL>>

IsCpuLine(line, n) == line = CpuMarker \o <<":", " ">> \o Str(n) \o <<NL>>

Numbers == Values \cup {-5}

WellFormedSnapshot ==
    \A i \in 1..Len(SnapshotLines) :
        Marked(SnapshotLines[i]) =>
            \E n \in Numbers : IsMemLine(SnapshotLines[i], n) \/ IsCpuLine(SnapshotLines[i], n)

\* lines j, j+1, j+2 of the body are the block of `name` with the value `digits`
BlockAt(bl, j, help, type, sample, digits) ==
    /\ j + 2 <= Len(bl)
    /\ bl[j] = <<help>>
    /\ bl[j + 1] = <<type>>
    /\ bl[j + 2] = <<sample>> \o digits


(* -------------------------------- claims ------------------------------- *)

\* C1: every GET /metrics is answered with status 200 and complete headers,
\* whatever the state of the status file; when reading or parsing raised, the
\* exception did not leave the handler and the body is the diagnostic
\* comment line, with no metric in it.
C1_Always200 ==
    IsMetrics =>
        /\ StatusOf(response) = 200
        /\ response.buffer = <<>>
        /\ ~response.crashed
        /\ response.body # <<>>
        /\ (logFile.exists /\ ~logFile.readable => response.exc # NoExc)
        /\ (response.exc # NoExc => IsDiagnostic(response.body))

\* C1 witness: a malformed recognized line after a well-formed one was served.
C1_Witness ==
    /\ IsMetrics
    /\ WasRead
    /\ logFile.text = CpuLine(35) \o NotANumberLine
    /\ StatusOf(response) = 200
    /\ response.exc = "ValueError"

\* C2: every request other than GET /metrics gets a complete response with
\* status 404 and an empty body, and the status file is not looked at.
C2_Others404 ==
    request # NoRequest /\ ~IsMetrics =>
        /\ StatusOf(response) = 404
        /\ response.buffer = <<>>
        /\ response.body = <<>>
        /\ ~response.read

\* C3: in a well-formed snapshot, a line `MemUsageMB: N` (N >= 0) puts the
\* line `legacy_memory_usage_bytes <N*1048576>` into the body and a line
\* `CPU_Load: N` the line `legacy_cpu_load_percent <N>`, each right after its
\* own # HELP and # TYPE lines.
C3_Conversion ==
    IsMetrics /\ WasRead /\ WellFormedSnapshot =>
        LET bl == BodyLines(response.body)
        IN  \A i \in 1..Len(SnapshotLines) : \A n \in {v \in Numbers : v >= 0} :
               /\ IsMemLine(SnapshotLines[i], n) =>
                     \E j \in 1..Len(bl) :
                         BlockAt(bl, j,
                                 "# HELP legacy_memory_usage_bytes Memory usage converted to bytes",
                                 "# TYPE legacy_memory_usage_bytes gauge",
                                 "legacy_memory_usage_bytes ", Str(n * 1048576))
               /\ IsCpuLine(SnapshotLines[i], n) =>
                     \E j \in 1..Len(bl) :
                         BlockAt(bl, j,
                                 "# HELP legacy_cpu_load_percent CPU load percentage",
                                 "# TYPE legacy_cpu_load_percent gauge",
                                 "legacy_cpu_load_percent ", Str(n))

\* C3 witness: the snapshot `MemUsageMB: 400`, `CPU_Load: 35` was served.
C3_Witness ==
    /\ IsMetrics
    /\ WasRead
    /\ logFile.text = MemLine(400) \o CpuLine(35)
    /\ response.exc = NoExc

\* C4: a marked line whose right-hand side is not a valid integer sends the
\* whole request to the diagnostic path (no metric line in the body, not
\* even for well-formed lines before it); lines without a marker never do.
C4_MalformedAborts ==
    IsMetrics /\ WasRead =>
        /\ (\E i \in 1..Len(SnapshotLines) : Malformed(SnapshotLines[i]))
              => IsDiagnostic(response.body)
        /\ (\A i \in 1..Len(SnapshotLines) : ~Marked(SnapshotLines[i]))
              => response.exc = NoExc

\* C5: with no status file, GET /metrics is answered 200 with exactly the
\* one informational comment line, and not through the error path.
C5_MissingFile ==
    IsMetrics /\ ~logFile.exists =>
        /\ StatusOf(response) = 200
        /\ response.body = <<"# Status file not yet created by legacy app", NL>>
        /\ response.exc = NoExc

\* C5 witness: GET /metrics was served while the file was absent.
C5_Witness == IsMetrics /\ ~logFile.exists /\ response.read

\* C6: the blocks of the body are, in order, the renderings of the marked
\* lines of the snapshot: the i-th block comes from the i-th marked line.
C6_Order ==
    IsMetrics /\ WasRead /\ response.exc = NoExc =>
        LET marked == SelectSeq(SnapshotLines, Marked)
            bl     == BodyLines(response.body)
        IN  /\ Len(marked) > 0 => Len(bl) = 3 * Len(marked)
            /\ \A i \in 1..Len(marked) :
                  IF Contains(MemMarker, marked[i])
                  THEN BlockAt(bl, 3 * i - 2, MemHelp, MemType, MemSample,
                               Str(FieldValue(marked[i]).value * 1048576))
                  ELSE BlockAt(bl, 3 * i - 2, CpuHelp, CpuType, CpuSample,
                               Str(FieldValue(marked[i]).value))

\* C6 witness: a CPU_Load line before a MemUsageMB line was served.
C6_Witness ==
    /\ IsMetrics
    /\ WasRead
    /\ logFile.text = CpuLine(35) \o MemLine(400)
    /\ response.exc = NoExc
    /\ Len(BodyLines(response.body)) = 6

\* C7: when the adapter finds a prefix of the snapshot the producer is
\* writing, the response is not the diagnostic comment and every value it
\* reports is one the producer wrote.
C7_TornRead ==
    IsMetrics /\ WasRead =>
        /\ response.exc = NoExc
        /\ \A l \in {BodyLines(response.body)[i] : i \in 1..Len(BodyLines(response.body))} :
              /\ (IsSampleLine(l) /\ l[1] = MemSample => Tail(l) = Str(memory_mb * 1048576))
              /\ (IsSampleLine(l) /\ l[1] = CpuSample => Tail(l) = Str(cpu_percent))

C9_TrailingNewline ==
    IsMetrics =>
        LET body == response.body
        IN  /\ body # <<>>
            /\ body[Len(body)] = NL
            /\ BodyRest(body) = <<>>
            /\ Len(body) > 1 => body[Len(body) - 1] # NL

\* C9 witness: an empty, readable file was served.
C9_Witness == IsMetrics /\ WasRead /\ logFile.text = <<>> /\ response.read

\* C10: on a marked line the value is all that follows the first ":": a
\* marked line with anything but one integer there, or with no ":", is
\* answered by the diagnostic and yields no metric.
C10_FirstColon ==
    IsMetrics /\ WasRead =>
        \A i \in 1..Len(SnapshotLines) :
            Malformed(SnapshotLines[i]) =>
                response.exc # NoExc /\ NoSampleLine(response.body)

=============================================================================
